---- MODULE Spec2Model ----
(***************************************************************************)
(* CanvasScrollImageSequence (src/src/components/CanvasScrollImageSequence  *)
(* .tsx): a React component that preloads N images, maps the scroll        *)
(* position to a frame index, draws that frame on a canvas and drives two  *)
(* text overlays, the second one delayed by an 800 ms timeout.             *)
(*                                                                         *)
(* React state is modelled twice: the value last passed to a setter        *)
(* (imagesLoaded, currentFrame, showText, showDescription) and the value   *)
(* of the last committed render (rImagesLoaded, rCurrentFrame,             *)
(* rShowDescription), which is what the registered event handlers have     *)
(* captured.  Render commits the former into the latter and re-runs the    *)
(* effects whose dependencies changed.                                     *)
(*                                                                         *)
(* Time is counted in ticks; the 800 ms delay lasts SettleTicks ticks.     *)
(* Scroll progress is the exact fraction <<num, den>>.                     *)
(*                                                                         *)
(* The arithmetic of the component (scroll progress, frame mapping, cover  *)
(* fit) is also exercised on its own, over inputs the page geometry of     *)
(* Spec does not produce: SpecMap draws the inputs of one computation into *)
(* calc and applies the function to them.  Numbers are exact rationals     *)
(* there too; the rounding of IEEE doubles is not modelled.                *)
(***************************************************************************)
EXTENDS Integers, Sequences, FiniteSets

\* ---------------------------------------------------------------- bounds

MaxImages == 3
MaxScroll == 2
MaxViewport == 2
ContainerHeight == 3
SettleTicks == 2
\* SpecMap: rect.top in -MaxTop..MaxTop, heights in 0..MaxHeight, progress values
\* with denominators up to MaxDen, canvas and image sides in 1..MaxSide.
MaxTop == 4
MaxHeight == 3
MaxDen == 4
MaxSide == 4
\* The length of the sequence the pages pass in.
PageImages == 30

\* The window sizes a resize event can produce: <<width, height>>.
Viewports == {<<MaxViewport + 1 - h, h>> : h \in 1..MaxViewport}
\* rect.top of the scroll container: positive above it, negative once scrolled in.
Tops == (0 - MaxScroll)..1
\* A canvas element that was never sized has the HTML default size.
DefaultCanvas == <<300, 150>>
\* The window the page is opened in.
InitialViewport == <<MaxViewport, 1>>

VARIABLES
    phase,              \* "rendered" (first render, effects not run), "mounted", "unmounted"
    numImages,          \* images.length
    textTriggerFrame,   \* the prop
    hasContext,         \* canvas.getContext("2d") yields a context on this host
    loadState,          \* per image: "pending", "loaded", "failed"
    loadedImagesRef,    \* loadedImagesRef.current
    imagesLoaded, currentFrame, showText, showDescription,   \* React state
    rImagesLoaded, rCurrentFrame, rShowDescription,          \* as of the last commit
    lastFrameRef,       \* lastFrameRef.current
    rafs,               \* animation-frame callbacks requested and not yet run or cancelled
    ticking,            \* the flag of the current scroll effect instance
    timeouts,           \* timeouts set and not yet fired or cleared
    top, viewport,      \* geometry of the page
    canvas,             \* <<canvas.width, canvas.height>>
    surface,            \* the frame shown on the canvas, -1 when blank
    drawCalls,          \* draws by updateFrame and by effect runs since the last frame selection
    reissued,           \* an update computed the selected frame again since its selection
    sinceCross,         \* ticks since the last upward crossing, -1 below the threshold
    calc                \* SpecMap: the computation in hand, its inputs and its results

vars == <<phase, numImages, textTriggerFrame, hasContext, loadState, loadedImagesRef,
          imagesLoaded, currentFrame, showText, showDescription,
          rImagesLoaded, rCurrentFrame, rShowDescription, lastFrameRef,
          rafs, ticking, timeouts, top, viewport, canvas, surface,
          drawCalls, reissued, sinceCross, calc>>

\* What no step of the component changes: its props, the host, and calc.
propVars == <<numImages, textTriggerFrame, hasContext, calc>>
loadVars == <<loadState, loadedImagesRef>>
stateVars == <<imagesLoaded, currentFrame, showText, showDescription>>
renderVars == <<rImagesLoaded, rCurrentFrame, rShowDescription>>
histVars == <<drawCalls, reissued, sinceCross>>

\* ------------------------------------------------------------ arithmetic

RECURSIVE GCD(_, _)
GCD(a, b) == IF b = 0 THEN a ELSE GCD(b, a % b)

Reduce(num, den) == LET g == GCD(num, den) IN <<num \div g, den \div g>>

\* Math.max(0, x): the upper clamp left out.
Clamp01Below(num, den) ==
    IF num <= 0 THEN <<0, 1>> ELSE Reduce(num, den)

\* Math.max(0, Math.min(1, x)) of the fraction num/den, den > 0.
Clamp01(num, den) ==
    IF num <= 0 THEN <<0, 1>>
    ELSE IF num >= den THEN <<1, 1>>
    ELSE Reduce(num, den)

\* rect.height - window.innerHeight
ScrollableRange(v) == ContainerHeight - v[2]

\* handleScroll's scrollProgress for rect.top = t and rect.height - innerHeight = range.
ScrollProgressOf(t, range) ==
    IF range > 0 THEN Clamp01(0 - t, range) ELSE <<0, 1>>

\* handleScroll's scrollProgress for rect.top = t in window v.
ScrollProgress(t, v) == ScrollProgressOf(t, ScrollableRange(v))

\* Math.floor(y), for y = num/den.
MathFloor(num, den) == num \div den

\* Math.round(y) = floor(y + 1/2), for y = num/den.
MathRound(num, den) == (2 * num + den) \div (2 * den)

\* A mapping that runs the sequence backwards.
FrameIndexReversed(p, n) ==
    LET c == Clamp01(p[1], p[2])
    IN  MathRound((c[2] - c[1]) * (n - 1), c[2])

\* updateFrame's frameIndex for a progress value p and n images.
FrameIndex(p, n) ==
    LET c == Clamp01(p[1], p[2])
    IN  MathRound(c[1] * (n - 1), c[2])

\* ------------------------------------------------------------- preloader

Images == 1..numImages

\* Promise.allSettled in the place of Promise.all.
PromiseAllSettled(ls) ==
    IF \A i \in DOMAIN ls : ls[i] # "pending" THEN "resolved" ELSE "pending"

\* Promise.all over the per-image promises: rejected by the first failure,
\* resolved when every image has loaded.
PromiseAll(ls) ==
    IF \E i \in DOMAIN ls : ls[i] = "failed" THEN "rejected"
    ELSE IF \A i \in DOMAIN ls : ls[i] = "loaded" THEN "resolved"
    ELSE "pending"

\* The array Promise.all resolves with: entry i is the image of images[i].
LoadedImages(ls) == [i \in 1..Len(ls) |-> [image |-> i, loaded |-> ls[i] = "loaded"]]

\* A state setter called after the component was unmounted changes nothing.
SetState(old, new) == IF phase = "mounted" THEN new ELSE old

\* The continuation of `await Promise.all(...)` in preloadImages, run when the
\* settling of one image settles the aggregate promise.
PreloadSettles(ls) ==
    IF PromiseAll(loadState) = "pending" /\ PromiseAll(ls) = "resolved"
    THEN /\ loadedImagesRef' = LoadedImages(ls)
         /\ imagesLoaded' = SetState(imagesLoaded, TRUE)
    ELSE UNCHANGED <<loadedImagesRef, imagesLoaded>>

\* img.onload of image i
ImageLoad(i) ==
    /\ phase # "rendered"
    /\ loadState[i] = "pending"
    /\ loadState' = [loadState EXCEPT ![i] = "loaded"]
    /\ PreloadSettles(loadState')
    /\ UNCHANGED <<phase, propVars, currentFrame, showText, showDescription, renderVars,
                   lastFrameRef, rafs, ticking, timeouts, top, viewport, canvas, surface,
                   histVars>>

\* img.onerror of image i
ImageError(i) ==
    /\ phase # "rendered"
    /\ loadState[i] = "pending"
    /\ loadState' = [loadState EXCEPT ![i] = "failed"]
    /\ PreloadSettles(loadState')
    /\ UNCHANGED <<phase, propVars, currentFrame, showText, showDescription, renderVars,
                   lastFrameRef, rafs, ticking, timeouts, top, viewport, canvas, surface,
                   histVars>>

\* ------------------------------------------------------------------ draw

\* drawFrame reaches ctx.drawImage: the guards of lines 70-79.  capLoaded is the
\* imagesLoaded the calling closure captured.
CanDraw(frameIndex, capLoaded) ==
    /\ phase # "unmounted"
    /\ capLoaded
    /\ frameIndex >= 0
    /\ frameIndex < Len(loadedImagesRef)
    /\ hasContext
    /\ loadedImagesRef[frameIndex + 1].loaded

\* The canvas content after drawFrame(frameIndex) on content sf.
DrawFrame(frameIndex, capLoaded, sf) ==
    IF CanDraw(frameIndex, capLoaded) THEN frameIndex ELSE sf

DrawCount(frameIndex, capLoaded) == IF CanDraw(frameIndex, capLoaded) THEN 1 ELSE 0

\* Contain fit: the comparison of the aspect ratios inverted.
ContainFit(cw, ch, iw, ih) ==
    IF iw * ch < cw * ih
    THEN [drawWidth |-> <<ch * iw, ih>>, drawHeight |-> <<ch, 1>>,
          offsetX |-> <<cw * ih - ch * iw, 2 * ih>>, offsetY |-> <<0, 1>>]
    ELSE [drawWidth |-> <<cw, 1>>, drawHeight |-> <<cw * ih, iw>>,
          offsetX |-> <<0, 1>>, offsetY |-> <<ch * iw - cw * ih, 2 * iw>>]

\* The rectangle drawFrame passes to ctx.drawImage for a cw x ch canvas and an
\* iw x ih image, each number a fraction <<num, den>>.  imageAspect > canvasAspect
\* is iw/ih > cw/ch, that is iw * ch > cw * ih.
CoverFit(cw, ch, iw, ih) ==
    IF iw * ch > cw * ih
    THEN [drawWidth |-> <<ch * iw, ih>>, drawHeight |-> <<ch, 1>>,
          offsetX |-> <<cw * ih - ch * iw, 2 * ih>>, offsetY |-> <<0, 1>>]
    ELSE [drawWidth |-> <<cw, 1>>, drawHeight |-> <<cw * ih, iw>>,
          offsetX |-> <<0, 1>>, offsetY |-> <<ch * iw - cw * ih, 2 * iw>>]

\* ---------------------------------------------------------- updateFrame

\* clearTimeout(ref.current) / cancelAnimationFrame(ref.current): drops the
\* entry the ref names, if it is still waiting.
CancelCurrent(S) == {r \in S : ~r.cur}

\* The ref is overwritten with the id of a new entry.
Schedule(S, rec) == {[r EXCEPT !.cur = FALSE] : r \in S} \cup {rec}

\* The guard of line 122 without the comparison with lastFrameRef.
FrameInRange(frameIndex, last, n) == frameIndex >= 0 /\ frameIndex < n

\* The guard of line 122 without its range test.
FrameDiffers(frameIndex, last, n) == frameIndex # last

\* The guard of line 122.
FrameChanged(frameIndex, last, n) ==
    frameIndex # last /\ frameIndex >= 0 /\ frameIndex < n

\* Lines 131-145 without the clearTimeout of the else branch.
TimeoutsKeptBelow(frameIndex, capDesc, ts) ==
    IF frameIndex >= textTriggerFrame /\ ~capDesc
    THEN Schedule(CancelCurrent(ts), [left |-> SettleTicks, cur |-> TRUE])
    ELSE ts

\* Lines 131-145: the timeouts after an update selected frameIndex, for a closure
\* that captured showDescription = capDesc.
TimeoutsAfterUpdate(frameIndex, capDesc, ts) ==
    IF frameIndex >= textTriggerFrame
    THEN IF ~capDesc
         THEN Schedule(CancelCurrent(ts), [left |-> SettleTicks, cur |-> TRUE])
         ELSE ts
    ELSE CancelCurrent(ts)

\* updateFrame(progress) of a closure that captured showDescription = capDesc and
\* a drawFrame that captured imagesLoaded = capLoaded.
UpdateFrame(progress, capDesc, capLoaded) ==
    LET frameIndex == FrameIndex(progress, numImages)
    IN  IF FrameChanged(frameIndex, lastFrameRef, numImages)
        THEN /\ lastFrameRef' = frameIndex
             /\ currentFrame' = SetState(currentFrame, frameIndex)
             /\ surface' = DrawFrame(frameIndex, capLoaded, surface)
             /\ drawCalls' = DrawCount(frameIndex, capLoaded)
             /\ reissued' = FALSE
             /\ showText' = SetState(showText, frameIndex >= textTriggerFrame)
             /\ timeouts' = TimeoutsAfterUpdate(frameIndex, capDesc, timeouts)
             /\ showDescription' = IF frameIndex >= textTriggerFrame
                                   THEN showDescription
                                   ELSE SetState(showDescription, FALSE)
             /\ sinceCross' = IF frameIndex < textTriggerFrame THEN -1
                              ELSE IF lastFrameRef < textTriggerFrame THEN 0
                              ELSE sinceCross
        ELSE /\ reissued' = (reissued \/ (frameIndex = lastFrameRef /\ frameIndex >= 0))
             /\ UNCHANGED <<lastFrameRef, currentFrame, surface, drawCalls, showText,
                            timeouts, showDescription, sinceCross>>

\* --------------------------------------------------------- scroll effect

\* handleScroll without the imagesLoaded test of line 159.
HandleScrollUngated(capLoaded, capDesc, tick, pending, t, v) ==
    IF tick
    THEN [ticking |-> tick, rafs |-> pending]
    ELSE [ticking |-> TRUE,
          rafs |-> Schedule(pending, [progress |-> ScrollProgress(t, v),
                                      loaded |-> capLoaded, desc |-> capDesc,
                                      live |-> TRUE, cur |-> TRUE])]

\* handleScroll (lines 158-176) of an effect instance that captured
\* imagesLoaded = capLoaded and an updateFrame with showDescription = capDesc.
\* Yields the instance's ticking flag and the requested callbacks.
HandleScroll(capLoaded, capDesc, tick, pending, t, v) ==
    IF ~capLoaded \/ tick
    THEN [ticking |-> tick, rafs |-> pending]
    ELSE [ticking |-> TRUE,
          rafs |-> Schedule(pending, [progress |-> ScrollProgress(t, v),
                                      loaded |-> capLoaded, desc |-> capDesc,
                                      live |-> TRUE, cur |-> TRUE])]

\* The callback given to requestAnimationFrame runs (lines 171-174).
RunUpdate(r) ==
    /\ r \in rafs
    /\ rafs' = rafs \ {r}
    /\ ticking' = IF r.live THEN FALSE ELSE ticking
    /\ UpdateFrame(r.progress, r.desc, r.loaded)
    /\ UNCHANGED <<phase, propVars, loadVars, imagesLoaded, renderVars,
                   top, viewport, canvas>>

\* A scroll event moves the container to rect.top = t.
ScrollEvent(t) ==
    /\ phase # "rendered"
    /\ t # top
    /\ top' = t
    /\ LET h == HandleScroll(rImagesLoaded, rShowDescription, ticking, rafs, t, viewport)
       IN  IF phase = "mounted"
           THEN ticking' = h.ticking /\ rafs' = h.rafs
           ELSE UNCHANGED <<ticking, rafs>>
    /\ UNCHANGED <<phase, propVars, loadVars, stateVars, renderVars, lastFrameRef,
                   timeouts, viewport, canvas, surface, histVars>>

\* The scroll effect with a cleanup that leaves the requested callback alone.
ScrollEffectNoCancel(capLoaded, capDesc, pending) ==
    HandleScroll(capLoaded, capDesc, FALSE,
                 {[r EXCEPT !.live = FALSE] : r \in pending},
                 top, viewport)

\* The scroll effect without the initial handleScroll() call of line 179.
ScrollEffectNoInitialCall(capLoaded, capDesc, pending) ==
    [ticking |-> FALSE,
     rafs |-> {[r EXCEPT !.live = FALSE] : r \in CancelCurrent(pending)}]

\* The cleanup of the scroll effect (lines 184-192), then a fresh instance:
\* ticking = false and the initial handleScroll() call (line 179).
ScrollEffect(capLoaded, capDesc, pending) ==
    HandleScroll(capLoaded, capDesc, FALSE,
                 {[r EXCEPT !.live = FALSE] : r \in CancelCurrent(pending)},
                 top, viewport)

\* --------------------------------------------------------- resize effect

\* resizeCanvas doing nothing until the images are loaded.
ResizeCanvasGated(capLoaded, frame, v) ==
    IF capLoaded
    THEN [canvas |-> v, surface |-> DrawFrame(frame, capLoaded, -1),
          draws |-> DrawCount(frame, capLoaded)]
    ELSE [canvas |-> canvas, surface |-> surface, draws |-> 0]

\* resizeCanvas (lines 202-214) of a closure that captured imagesLoaded =
\* capLoaded and currentFrame = frame, in window v.  Assigning canvas.width
\* clears the canvas.
ResizeCanvas(capLoaded, frame, v) ==
    [canvas |-> v,
     surface |-> IF capLoaded THEN DrawFrame(frame, capLoaded, -1) ELSE -1,
     draws |-> IF capLoaded THEN DrawCount(frame, capLoaded) ELSE 0]

\* A resize event changes the window to v.
ResizeEvent(v) ==
    /\ phase # "rendered"
    /\ v # viewport
    /\ viewport' = v
    /\ LET z == ResizeCanvas(rImagesLoaded, rCurrentFrame, v)
       IN  IF phase = "mounted"
           THEN canvas' = z.canvas /\ surface' = z.surface
           ELSE UNCHANGED <<canvas, surface>>
    /\ UNCHANGED <<phase, propVars, loadVars, stateVars, renderVars, lastFrameRef,
                   rafs, ticking, timeouts, top, histVars>>

\* ---------------------------------------------------------------- React

\* The effects of the first commit: preloadImages(), the scroll effect, the
\* resize effect.  With no image at all Promise.all resolves at once.
Mount ==
    /\ phase = "rendered"
    /\ phase' = "mounted"
    /\ LET h == ScrollEffect(rImagesLoaded, rShowDescription, rafs)
           z == ResizeCanvas(rImagesLoaded, rCurrentFrame, viewport)
       IN  /\ ticking' = h.ticking
           /\ rafs' = h.rafs
           /\ canvas' = z.canvas
           /\ surface' = z.surface
           /\ drawCalls' = drawCalls + z.draws
    /\ IF PromiseAll(loadState) = "resolved"
       THEN loadedImagesRef' = LoadedImages(loadState) /\ imagesLoaded' = TRUE
       ELSE UNCHANGED <<loadedImagesRef, imagesLoaded>>
    /\ UNCHANGED <<propVars, loadState, currentFrame, showText, showDescription,
                   renderVars, lastFrameRef, timeouts, top, viewport, reissued, sinceCross>>

\* A re-render is committed and the effects whose dependencies changed run:
\* cleanups first, then the scroll effect, then the resize effect.
Render ==
    /\ phase = "mounted"
    /\ <<imagesLoaded, currentFrame, showDescription>> # renderVars
    /\ rImagesLoaded' = imagesLoaded
    /\ rCurrentFrame' = currentFrame
    /\ rShowDescription' = showDescription
    /\ IF imagesLoaded # rImagesLoaded \/ showDescription # rShowDescription
       THEN LET h == ScrollEffect(imagesLoaded, showDescription, rafs)
            IN  /\ ticking' = h.ticking
                /\ rafs' = h.rafs
                /\ timeouts' = CancelCurrent(timeouts)
       ELSE UNCHANGED <<ticking, rafs, timeouts>>
    /\ IF imagesLoaded # rImagesLoaded \/ currentFrame # rCurrentFrame
       THEN LET z == ResizeCanvas(imagesLoaded, currentFrame, viewport)
            IN  /\ canvas' = z.canvas
                /\ surface' = z.surface
                /\ drawCalls' = drawCalls + z.draws
       ELSE UNCHANGED <<canvas, surface, drawCalls>>
    /\ UNCHANGED <<phase, propVars, loadVars, stateVars, lastFrameRef, top, viewport,
                   reissued, sinceCross>>

\* An unmount whose cleanups cancel nothing.
UnmountNoCleanup ==
    /\ phase = "mounted"
    /\ phase' = "unmounted"
    /\ UNCHANGED <<propVars, loadVars, stateVars, renderVars, lastFrameRef, rafs, ticking,
                   timeouts, top, viewport, canvas, surface, histVars>>

\* The component is unmounted: the cleanups of both effects run.
Unmount ==
    /\ phase = "mounted"
    /\ phase' = "unmounted"
    /\ rafs' = CancelCurrent(rafs)
    /\ timeouts' = CancelCurrent(timeouts)
    /\ UNCHANGED <<propVars, loadVars, stateVars, renderVars, lastFrameRef, ticking,
                   top, viewport, canvas, surface, histVars>>

\* ------------------------------------------------------------------ time

\* One tick passes; a timeout that is due fires before more time passes.
Tick ==
    /\ \A t \in timeouts : t.left > 0
    /\ timeouts # {} \/ (sinceCross >= 0 /\ sinceCross < SettleTicks)
    /\ timeouts' = {[t EXCEPT !.left = t.left - 1] : t \in timeouts}
    /\ sinceCross' = IF sinceCross >= 0 /\ sinceCross < SettleTicks
                     THEN sinceCross + 1 ELSE sinceCross
    /\ UNCHANGED <<phase, propVars, loadVars, stateVars, renderVars, lastFrameRef,
                   rafs, ticking, top, viewport, canvas, surface, drawCalls, reissued>>

\* The callback of a timeout runs (line 137).
TimeoutFires(t) ==
    /\ t \in timeouts
    /\ t.left = 0
    /\ timeouts' = timeouts \ {t}
    /\ showDescription' = SetState(showDescription, TRUE)
    /\ UNCHANGED <<phase, propVars, loadVars, imagesLoaded, currentFrame, showText,
                   renderVars, lastFrameRef, rafs, ticking, top, viewport, canvas,
                   surface, histVars>>

\* --------------------------------------------------------- specification

\* No computation in hand: the value of calc throughout Spec.
NoCalc == [op |-> "none"]

InitComponent ==
    /\ phase = "rendered"
    /\ numImages \in 0..MaxImages
    /\ textTriggerFrame \in 0..MaxImages
    /\ hasContext \in BOOLEAN
    /\ loadState = [i \in 1..numImages |-> "pending"]
    /\ loadedImagesRef = <<>>
    /\ imagesLoaded = FALSE /\ currentFrame = 0
    /\ showText = FALSE /\ showDescription = FALSE
    /\ rImagesLoaded = FALSE /\ rCurrentFrame = 0 /\ rShowDescription = FALSE
    /\ lastFrameRef = -1
    /\ rafs = {} /\ ticking = FALSE /\ timeouts = {}
    /\ top = 1 /\ viewport = InitialViewport
    /\ canvas = DefaultCanvas /\ surface = -1
    /\ drawCalls = 0 /\ reissued = FALSE /\ sinceCross = -1

Init == InitComponent /\ calc = NoCalc

Next ==
    \/ Mount
    \/ \E i \in Images : ImageLoad(i)
    \/ \E i \in Images : ImageError(i)
    \/ \E t \in Tops : ScrollEvent(t)
    \/ \E v \in Viewports : ResizeEvent(v)
    \/ \E r \in rafs : RunUpdate(r)
    \/ Render
    \/ Tick
    \/ \E t \in timeouts : TimeoutFires(t)
    \/ Unmount

Spec == Init /\ [][Next]_vars

\* ------------------------------------------------------------ liveness

\* The page is scrolled and resized while the images are still loading, which
\* fixes the geometry the first update will see; from then on the user leaves
\* it alone.  Every load succeeds and the component stays mounted.
ScrollBeforeLoad(t) == ~imagesLoaded /\ ScrollEvent(t)

ResizeBeforeLoad(v) == ~imagesLoaded /\ ResizeEvent(v)

NextLive ==
    \/ Mount
    \/ \E i \in Images : ImageLoad(i)
    \/ \E t \in Tops : ScrollBeforeLoad(t)
    \/ \E v \in Viewports : ResizeBeforeLoad(v)
    \/ \E r \in rafs : RunUpdate(r)
    \/ Render
    \/ Tick
    \/ \E t \in timeouts : TimeoutFires(t)

\* React runs the effects of a commit and commits a scheduled re-render, the
\* browser settles every image request, runs every requested animation-frame
\* callback and lets time pass until a timeout fires.
Fairness ==
    /\ WF_vars(Mount)
    /\ WF_vars(\E i \in Images : ImageLoad(i))
    /\ WF_vars(Render)
    /\ WF_vars(\E r \in rafs : RunUpdate(r))
    /\ WF_vars(Tick)
    /\ WF_vars(\E t \in timeouts : TimeoutFires(t))

SpecLive == Init /\ [][NextLive]_vars /\ Fairness

\* ------------------------------------------------- the arithmetic alone

componentVars == <<phase, loadState, loadedImagesRef, stateVars, renderVars, lastFrameRef,
                   rafs, ticking, timeouts, top, viewport, canvas, surface, histVars>>

\* rect.top, rect.height and window.innerHeight as handleScroll reads them.
ProgressInputs ==
    [op : {"progress"}, top : (0 - MaxTop)..MaxTop, height : 0..MaxHeight,
     innerHeight : 0..MaxHeight, done : {FALSE}, out : {<<>>}]

\* The progress values updateFrame may be called with, some outside [0, 1].
Progresses == {<<num, den>> : num \in (0 - 1)..(MaxDen + 1), den \in 1..MaxDen}

\* images.length and two calls of updateFrame.
FrameInputs ==
    [op : {"frame"}, n : (1..MaxImages) \cup {PageImages},
     ps : {<<p1, p2>> : p1 \in Progresses, p2 \in Progresses}, done : {FALSE}, out : {<<>>}]

\* canvas.width, canvas.height, image.width, image.height.
Sides ==
    {<<cw, ch, iw, ih>> : cw \in 1..MaxSide, ch \in 1..MaxSide,
                          iw \in 1..MaxSide, ih \in 1..MaxSide}
        \cup {<<1000, 500, 400, 400>>}

FitInputs == [op : {"fit"}, sides : Sides, done : {FALSE}, out : {<<>>}]

\* handleScroll, lines 161-166.
ComputeProgress ==
    /\ calc.op = "progress" /\ ~calc.done
    /\ calc' = [calc EXCEPT !.done = TRUE,
                            !.out = ScrollProgressOf(calc.top, calc.height - calc.innerHeight)]
    /\ UNCHANGED <<numImages, textTriggerFrame, hasContext, componentVars>>

\* updateFrame, lines 117-119, for the next of the progress values.
MapFrame ==
    /\ calc.op = "frame" /\ ~calc.done
    /\ LET out == Append(calc.out, FrameIndex(calc.ps[Len(calc.out) + 1], calc.n))
       IN  calc' = [calc EXCEPT !.out = out, !.done = (Len(out) = Len(calc.ps))]
    /\ UNCHANGED <<numImages, textTriggerFrame, hasContext, componentVars>>

\* drawFrame, lines 84-103.
FitImage ==
    /\ calc.op = "fit" /\ ~calc.done
    /\ calc' = [calc EXCEPT !.done = TRUE,
                            !.out = CoverFit(calc.sides[1], calc.sides[2],
                                             calc.sides[3], calc.sides[4])]
    /\ UNCHANGED <<numImages, textTriggerFrame, hasContext, componentVars>>

InitMap ==
    /\ InitComponent
    /\ numImages = 0 /\ textTriggerFrame = 0 /\ hasContext = FALSE
    /\ calc \in ProgressInputs \cup FrameInputs \cup FitInputs

NextMap == ComputeProgress \/ MapFrame \/ FitImage

SpecMap == InitMap /\ [][NextMap]_vars

\* ---------------------------------------------------------------- claims

SomeImageFailed == \E i \in DOMAIN loadState : loadState[i] = "failed"

NothingShown ==
    /\ surface = -1 /\ drawCalls = 0
    /\ lastFrameRef = -1
    /\ ~showText /\ ~showDescription

\* C1: once an image load has failed (a failure is never undone), the loaded
\* flag is not set, nothing is published, nothing is drawn, no frame index is
\* selected and both overlays are hidden, in every later state.
C1_PreloadAllOrNothing ==
    SomeImageFailed =>
        /\ ~imagesLoaded /\ ~rImagesLoaded
        /\ loadedImagesRef = <<>>
        /\ NothingShown

\* One image failed, every other one loaded, with scroll and resize events
\* handled by the mounted component.
C1_Witness ==
    /\ phase = "mounted"
    /\ numImages = MaxImages
    /\ SomeImageFailed
    /\ Cardinality({i \in DOMAIN loadState : loadState[i] = "loaded"}) = MaxImages - 1
    /\ top < 0
    /\ viewport # InitialViewport

\* C2: as long as the loaded flag is not set, no update is scheduled, nothing
\* is drawn, no frame index is selected, no timeout is set and both overlays
\* are hidden.
C2_LoadedGatesRenderer ==
    ~imagesLoaded =>
        /\ rafs = {} /\ ~ticking
        /\ timeouts = {}
        /\ NothingShown

\* The preload is pending in a mounted component that has seen a scroll event
\* and a resize event.
C2_Witness ==
    /\ phase = "mounted"
    /\ ~imagesLoaded
    /\ ~SomeImageFailed
    /\ top < 0
    /\ viewport # InitialViewport

\* C3 as stated: before the loaded flag is set the canvas keeps the size it
\* was created with.
C3_NoSizingBeforeLoaded == ~imagesLoaded => canvas = DefaultCanvas

\* C3 as amended: in a mounted component whose loaded flag is not set, the
\* canvas has the size of the window (mounting and every resize event size
\* it), and it is blank: only the redraw waits for the loaded flag.
C3_SizingNotGated ==
    (phase = "mounted" /\ ~imagesLoaded) =>
        /\ canvas = viewport
        /\ surface = -1 /\ drawCalls = 0

\* A resize event was handled while the preload had not succeeded.
C3_Witness ==
    /\ phase = "mounted"
    /\ ~imagesLoaded
    /\ viewport # InitialViewport
    /\ canvas = viewport

\* C4: a scheduled update whose frame index equals the last selected one
\* changes nothing: no draw, no change of the frame index, of either overlay or
\* of the timeouts.
C4_RedrawGating ==
    [][\A r \in rafs :
          (RunUpdate(r) /\ FrameIndex(r.progress, numImages) = lastFrameRef)
          => UNCHANGED <<surface, drawCalls, lastFrameRef, currentFrame, showText,
                         showDescription, timeouts, sinceCross>>]_vars

\* An update has computed the selected frame again while a timeout was
\* running and after the frame was redrawn by the resize effect.
C4_Witness ==
    /\ reissued
    /\ drawCalls = 2
    /\ \E t \in timeouts : t.left < SettleTicks

\* C5: when the same frame index was issued twice in a row, the frame was
\* drawn exactly once by the update and the effects together.
C5_OneDrawInTotal ==
    (phase = "mounted" /\ hasContext /\ reissued) => drawCalls = 1

\* C6: an update that takes the frame index from below the threshold (or from
\* unset) to the threshold or above makes the primary text visible, leaves the
\* secondary text hidden and arms the timeout with the full delay.
C6_UpwardCrossing ==
    [][\A r \in rafs :
          (RunUpdate(r) /\ lastFrameRef < textTriggerFrame
                        /\ lastFrameRef' >= textTriggerFrame)
          => /\ showText'
             /\ ~showDescription'
             /\ \E t \in timeouts' : t.cur /\ t.left = SettleTicks]_vars

\* C7: in a mounted component, once the delay has passed since an upward
\* crossing with no downward crossing since, the secondary text is visible or
\* the timeout that shows it is due.
C7_Settle ==
    (phase = "mounted" /\ sinceCross = SettleTicks) =>
        (showDescription \/ \E t \in timeouts : t.left = 0)

\* C8: an update that takes the frame index below the threshold hides both
\* texts and leaves no timeout; and whenever the frame index is below the
\* threshold the secondary text is hidden and no timeout is running, so no
\* timeout set before the crossing shows it later.
C8_DownwardCrossing ==
    /\ [][\A r \in rafs :
            (RunUpdate(r) /\ lastFrameRef >= textTriggerFrame
                          /\ lastFrameRef' < textTriggerFrame)
            => (~showText' /\ ~showDescription' /\ timeouts' = {})]_vars
    /\ [](lastFrameRef < textTriggerFrame => (~showDescription /\ timeouts = {}))

\* The frame index has dropped below the threshold from the settled state: the
\* last commit still shows the secondary text.
C8_Witness ==
    /\ lastFrameRef >= 0
    /\ lastFrameRef < textTriggerFrame
    /\ rShowDescription
    /\ ~showDescription /\ ~showText /\ timeouts = {}

\* C9: while the secondary text is hidden and a timeout is running, an update
\* that moves the frame index between two values at or above the threshold
\* leaves the timeout as it is.
C9_NoRearmWhilePending ==
    [][\A r \in rafs :
          (RunUpdate(r) /\ lastFrameRef >= textTriggerFrame
                        /\ lastFrameRef' >= textTriggerFrame
                        /\ lastFrameRef' # lastFrameRef
                        /\ ~showDescription /\ timeouts # {})
          => timeouts' = timeouts]_vars

\* C10: after a scroll event that arrives while an update is scheduled (the
\* image sequence not being empty), the scheduled update holds the progress of
\* that event, and it is the only one.
C10_CollapseToLatest ==
    [][\A t \in Tops :
          (ScrollEvent(t) /\ rafs # {} /\ numImages >= 1)
          => /\ Cardinality(rafs') = 1
             /\ \A r \in rafs' : r.progress = ScrollProgress(t, viewport)]_vars

\* C11: at most one animation-frame callback is requested and not yet run or
\* cancelled, and in a mounted component the ticking flag of the registered
\* handler is set exactly when its callback is waiting, so that the handler
\* schedules again once the callback has run.
C11_ScrollCoalescing ==
    /\ Cardinality(rafs) <= 1
    /\ phase = "mounted" => (ticking <=> \E r \in rafs : r.live)

\* A callback requested by a handler that was registered again after the
\* secondary text became visible, with a later scroll event dropped.
C11_Witness ==
    /\ phase = "mounted"
    /\ \E r \in rafs : r.desc /\ r.progress # ScrollProgress(top, viewport)

\* C12: the unmount leaves no requested callback and no timeout, and after it
\* no step draws, sizes the canvas, or changes the frame index or an overlay.
C12_Teardown ==
    /\ [][phase = "unmounted"
            => UNCHANGED <<surface, drawCalls, canvas, lastFrameRef, currentFrame,
                           showText, showDescription>>]_vars
    /\ [](phase = "unmounted" => (rafs = {} /\ timeouts = {}))

\* Unmounted with a callback requested and a timeout running at that moment,
\* and with a scroll and a resize event after it.
C12_Witness ==
    /\ phase = "unmounted"
    /\ ticking
    /\ sinceCross >= 0 /\ sinceCross < SettleTicks /\ ~showDescription
    /\ canvas # viewport
    /\ lastFrameRef # FrameIndex(ScrollProgress(top, viewport), numImages)

\* C13: in a loaded, mounted component a resize event sizes the canvas and
\* leaves on it the frame of the current frame index.
C13_ResizeRedraws ==
    [][\A v \in Viewports :
          (ResizeEvent(v) /\ phase = "mounted" /\ rImagesLoaded /\ hasContext
                          /\ numImages >= 1)
          => (canvas' = v /\ surface' = currentFrame)]_vars

\* C14: Progress clamping (SpecMap).  For every rect.top and every scrollable range
\* the progress handleScroll computes is a fraction in [0, 1]; it is 0 when the
\* range is <= 0, and (-top)/range saturated to 0 below and 1 above otherwise.
C14_ProgressClamping ==
    (calc.op = "progress" /\ calc.done) =>
        LET range == calc.height - calc.innerHeight
            p == calc.out
            sat == IF 0 - calc.top < 0 THEN 0
                   ELSE IF 0 - calc.top > range THEN range ELSE 0 - calc.top
        IN  /\ p[2] > 0 /\ 0 <= p[1] /\ p[1] <= p[2]
            /\ range <= 0 => p[1] = 0
            /\ range > 0 => p[1] * range = p[2] * sat

\* A progress that saturated at 1: the container scrolled past its range.
C14_Witness ==
    /\ calc.op = "progress" /\ calc.done
    /\ calc.height - calc.innerHeight > 0
    /\ 0 - calc.top > calc.height - calc.innerHeight
    /\ calc.out = <<1, 1>>

\* C15: Boundary exactness and nearest-frame rounding (SpecMap).  For N >= 1 a
\* progress of 0 maps to frame 0, a progress of 1 to frame N-1, and a progress
\* num/den in between to the integer f with f - 1/2 <= progress*(N-1) < f + 1/2,
\* so an exact half rounds up; N = 30 and progress 1/2 give 15.
C15_NearestFrame ==
    (calc.op = "frame") =>
        \A i \in 1..Len(calc.out) :
            LET num == calc.ps[i][1]
                den == calc.ps[i][2]
                f == calc.out[i]
            IN  (0 <= num /\ num <= den) =>
                    /\ num = 0 => f = 0
                    /\ num = den => f = calc.n - 1
                    /\ 2 * den * f <= 2 * num * (calc.n - 1) + den
                    /\ 2 * num * (calc.n - 1) + den < 2 * den * (f + 1)
                    /\ (calc.n = PageImages /\ 2 * num = den) => f = 15

\* The page's sequence at half progress: 14.5 rounded up.
C15_Witness ==
    /\ calc.op = "frame" /\ calc.done
    /\ calc.n = PageImages
    /\ calc.ps[1] = <<1, 2>>
    /\ calc.out[1] = 15

\* C16: The frame mapping is non-decreasing (SpecMap).  For N >= 1 and progress
\* values p1 < p2, inside or outside [0, 1], the frame index computed for p1 is
\* at most the one computed for p2.
C16_Monotone ==
    (calc.op = "frame" /\ calc.done) =>
        LET p1 == calc.ps[1]
            p2 == calc.ps[2]
        IN  (p1[1] * p2[2] < p2[1] * p1[2]) => calc.out[1] <= calc.out[2]

\* Two progress values, the larger beyond 1, mapped to different frames.
C16_Witness ==
    /\ calc.op = "frame" /\ calc.done
    /\ calc.ps[1][1] * calc.ps[2][2] < calc.ps[2][1] * calc.ps[1][2]
    /\ calc.ps[1][1] > 0
    /\ calc.ps[2][1] > calc.ps[2][2]
    /\ calc.out[1] < calc.out[2]

\* C17: Cover fit (SpecMap).  For positive canvas and image sizes the drawn
\* rectangle has the image's aspect ratio, is at least as wide and as high as the
\* canvas with one side equal, and sits at (canvas - drawn)/2 on each axis, which
\* is 0 on the axis that does not overflow; a 1000x500 canvas and a 400x400
\* image give drawWidth 1000, drawHeight 1000, offsetX 0, offsetY -250.
C17_CoverFit ==
    (calc.op = "fit" /\ calc.done) =>
        LET cw == calc.sides[1]
            ch == calc.sides[2]
            iw == calc.sides[3]
            ih == calc.sides[4]
            dw == calc.out.drawWidth
            dh == calc.out.drawHeight
            ox == calc.out.offsetX
            oy == calc.out.offsetY
        IN  /\ dw[2] > 0 /\ dh[2] > 0 /\ ox[2] > 0 /\ oy[2] > 0
            /\ dw[1] * dh[2] * ih = dh[1] * dw[2] * iw
            /\ dw[1] >= cw * dw[2]
            /\ dh[1] >= ch * dh[2]
            /\ dw[1] = cw * dw[2] \/ dh[1] = ch * dh[2]
            /\ 2 * ox[1] * dw[2] = ox[2] * (cw * dw[2] - dw[1])
            /\ 2 * oy[1] * dh[2] = oy[2] * (ch * dh[2] - dh[1])
            /\ dw[1] = cw * dw[2] => ox[1] = 0
            /\ dh[1] = ch * dh[2] => oy[1] = 0
            /\ calc.sides = <<1000, 500, 400, 400>> =>
                    /\ dw[1] = 1000 * dw[2] /\ dh[1] = 1000 * dh[2]
                    /\ ox[1] = 0 /\ oy[1] = (0 - 250) * oy[2]

\* The example: a square image on a 2:1 canvas, cropped vertically.
C17_Witness ==
    /\ calc.op = "fit" /\ calc.done
    /\ calc.sides = <<1000, 500, 400, 400>>
    /\ calc.out.offsetY[1] < 0

\* C18: The current frame index is the last frame actually drawn.  In every state
\* after loading (the loaded flag committed, the sizing step done) the frame on
\* the canvas is the recorded one, be the record lastFrameRef or the currentFrame
\* state; this includes a draw skipped for want of a 2D context.
C18_IndexIsLastDrawn ==
    (phase = "mounted" /\ rImagesLoaded)
        => (surface = lastFrameRef \/ surface = currentFrame)

\* C19: Preload ordering.  Once the loaded flag is set the published array has N
\* entries, entry i holding the image of images[i] and marked ready, whatever the
\* order the loads completed in; the array is written once, from empty, in the
\* step that sets the loaded flag, and never again.
C19_PreloadOrdering ==
    /\ [](imagesLoaded =>
            loadedImagesRef = [i \in 1..numImages |-> [image |-> i, loaded |-> TRUE]])
    /\ [][loadedImagesRef' # loadedImagesRef
            => (loadedImagesRef = <<>> /\ ~imagesLoaded /\ imagesLoaded')]_vars

\* C20: Frame index range.  In every state the recorded frame index is -1 or lies
\* in [0, N-1], and so does the frame on the canvas: no index outside [0, N-1] is
\* ever recorded or drawn, and with N = 0 none is recorded or drawn at all.
C20_FrameIndexRange ==
    /\ [](/\ lastFrameRef \in (0 - 1)..(numImages - 1)
          /\ surface \in (0 - 1)..(numImages - 1)
          /\ numImages = 0 => (lastFrameRef = -1 /\ surface = -1 /\ drawCalls = 0))
    /\ [][lastFrameRef' # lastFrameRef => lastFrameRef' \in 0..(numImages - 1)]_vars

\* An empty sequence, loaded and rendered, after an update for a container
\* scrolled to its end: round(1 * (0 - 1)) = -1 was computed and ignored.
C20_Witness ==
    /\ phase = "mounted"
    /\ numImages = 0
    /\ rImagesLoaded
    /\ top = 0 - MaxScroll
    /\ rafs = {} /\ ~ticking

\* C21: First frame without scrolling (SpecLive).  When every load succeeds and
\* the component stays mounted, eventually the loaded flag is set and, with no
\* scroll event after loading, an update has run, has selected the frame of the
\* scroll position the page was loaded at and, given a 2D context, has drawn it.
C21_FirstFrame ==
    <>(/\ imagesLoaded /\ rImagesLoaded
       /\ rafs = {}
       /\ numImages >= 1
             => lastFrameRef = FrameIndex(ScrollProgress(top, viewport), numImages)
       /\ (numImages >= 1 /\ hasContext)
             => surface = FrameIndex(ScrollProgress(top, viewport), numImages))

\* The page was scrolled into the container while loading: the first update
\* drew a frame other than frame 0.
C21_Witness ==
    /\ imagesLoaded /\ rImagesLoaded
    /\ rafs = {}
    /\ numImages = MaxImages /\ hasContext
    /\ top < 0
    /\ lastFrameRef > 0
    /\ lastFrameRef = FrameIndex(ScrollProgress(top, viewport), numImages)
    /\ surface = lastFrameRef

\* Nothing of the component is waiting: no animation-frame callback, no timeout,
\* no re-render.  Unless an event arrives, the state stays as it is.
Quiescent ==
    /\ phase = "mounted"
    /\ rafs = {} /\ timeouts = {}
    /\ <<imagesLoaded, currentFrame, showDescription>> = renderVars

\* C22: Convergence after scrolling stops.  Once loaded, when the scroll events
\* have stopped and nothing is waiting any more, the frame on the canvas and the
\* recorded frame index are round(progress * (N-1)) for the final scroll position
\* (in a window that was never resized, on a host with a 2D context).
C22_Convergence ==
    (/\ Quiescent /\ rImagesLoaded
     /\ numImages >= 1 /\ hasContext
     /\ viewport = InitialViewport /\ canvas = InitialViewport)
        => /\ lastFrameRef = FrameIndex(ScrollProgress(top, viewport), numImages)
           /\ surface = FrameIndex(ScrollProgress(top, viewport), numImages)

\* C23: No stuck pending state.  Whenever the mounted component has selected a
\* frame at or above textTriggerFrame and the description is hidden, a settle
\* timeout is waiting (stated for the states in which no update and no re-render
\* is waiting, so that nothing else could still set one).
C23_NoStuckPending ==
    (/\ phase = "mounted"
     /\ rafs = {}
     /\ <<imagesLoaded, currentFrame, showDescription>> = renderVars
     /\ lastFrameRef >= 0 /\ lastFrameRef >= textTriggerFrame
     /\ ~showDescription)
        => timeouts # {}

\* C24: Overlay consistency.  In every state, the description shown implies the
\* primary text shown and a recorded frame index at or above textTriggerFrame;
\* and the description is never switched on (the settle timeout never fires)
\* while the recorded frame index is below textTriggerFrame.
C24_OverlayConsistency ==
    /\ [](showDescription
            => (showText /\ lastFrameRef >= 0 /\ lastFrameRef >= textTriggerFrame))
    /\ [][(~showDescription /\ showDescription')
            => (lastFrameRef >= 0 /\ lastFrameRef >= textTriggerFrame)]_vars

\* The description is shown and rendered, and an update that will select a
\* frame below the threshold is waiting.
C24_Witness ==
    /\ phase = "mounted"
    /\ showDescription /\ rShowDescription
    /\ textTriggerFrame >= 1
    /\ \E r \in rafs : FrameIndex(r.progress, numImages) < textTriggerFrame

====
